---------------------------- MODULE Spec2Model ----------------------------
(*************************************************************************)
(* Model of the ComfyUI nodes of src/custom_openai_chat_completion.py:   *)
(* the response normaliser (_extract_text, _extract_tool_calls), the     *)
(* chat node CustomOpenAIChatCompletion.execute and the message builder  *)
(* ChatMessagesCreate.execute.                                           *)
(*                                                                       *)
(* Decoded JSON is modelled as tagged records, so that values of         *)
(* different JSON types can be compared:                                 *)
(*   null  [k |-> "null"]            string [k |-> "str",  s |-> "a"]    *)
(*   bool  [k |-> "bool", b |-> ..]  number [k |-> "num",  n |-> 1]      *)
(*   list  [k |-> "list", items |-> <<...>>]                             *)
(*   dict  [k |-> "obj",  fields |-> function from key strings]          *)
(* A Python exception leaving a function is [k |-> "raise", exc |-> ..]. *)
(*************************************************************************)
EXTENDS Integers, Sequences, FiniteSets, TLC

\* ------------------------------------------------------------------------
\* JSON values and the Python primitives the code applies to them
\* ------------------------------------------------------------------------
Null == [k |-> "null"]
Str(s) == [k |-> "str", s |-> s]
Num(n) == [k |-> "num", n |-> n]
Bool(b) == [k |-> "bool", b |-> b]
List(xs) == [k |-> "list", items |-> xs]
Obj(f) == [k |-> "obj", fields |-> f]
Raise(e) == [k |-> "raise", exc |-> e]

NoFields == [key \in {} |-> Null]
EmptyList == List(<<>>)
EmptyObj == Obj(NoFields)

IsRaise(v) == v.k = "raise"
IsStr(v) == v.k = "str"
IsList(v) == v.k = "list"
IsObj(v) == v.k = "obj"

\* bool(v): None, False, 0, "", [] and {} are falsy
Truthy(v) ==
    CASE v.k = "null" -> FALSE
      [] v.k = "bool" -> v.b
      [] v.k = "num" -> v.n # 0
      [] v.k = "str" -> v.s # ""
      [] v.k = "list" -> Len(v.items) > 0
      [] v.k = "obj" -> DOMAIN v.fields # {}

\* a or b
PyOr(a, b) == IF Truthy(a) THEN a ELSE b

\* key in d, for a dict d
HasKey(d, key) == key \in DOMAIN d.fields

\* d.get(key, default): only a dict has .get
PyGet(d, key, default) ==
    IF ~IsObj(d) THEN Raise("AttributeError")
    ELSE IF HasKey(d, key) THEN d.fields[key] ELSE default

\* hash(v) fails for lists and dicts: `v in {...}` raises TypeError for them
Unhashable(v) == v.k \in {"list", "obj"}

\* v in S, for a set literal S of strings and a hashable v
InStrSet(v, S) == IsStr(v) /\ v.s \in S

\* the i-th character of s (the model iterates over one-character strings only)
CharOf(s, i) == IF Len(s) = 1 THEN s ELSE "c"

\* the keys of a dict, as a sequence
RECURSIVE KeySeq(_)
KeySeq(keys) ==
    IF keys = {} THEN <<>>
    ELSE LET key == CHOOSE key \in keys : TRUE
         IN <<Str(key)>> \o KeySeq(keys \ {key})

\* for x in v: the values the loop sees (as a list), or the TypeError of a
\* value that is not iterable. A str yields its characters, a dict its keys.
PyIter(v) ==
    CASE v.k = "list" -> v
      [] v.k = "str" -> List([i \in 1..Len(v.s) |-> Str(CharOf(v.s, i))])
      [] v.k = "obj" -> List(KeySeq(DOMAIN v.fields))
      [] OTHER -> Raise("TypeError")

\* v[0], for a truthy v
PyFirst(v) ==
    CASE v.k = "list" -> v.items[1]
      [] v.k = "str" -> Str(CharOf(v.s, 1))
      [] v.k = "obj" -> Raise("KeyError")
      [] OTHER -> Raise("TypeError")

\* "".join(parts), parts a sequence of values
RECURSIVE Join(_)
Join(parts) ==
    IF parts = <<>> THEN Str("")
    ELSE IF ~IsStr(Head(parts)) THEN Raise("TypeError")
    ELSE LET rest == Join(Tail(parts))
         IN IF IsRaise(rest) THEN rest ELSE Str(Head(parts).s \o rest.s)

\* ------------------------------------------------------------------------
\* CustomOpenAIChatCompletion._extract_text
\* ------------------------------------------------------------------------
SkipTypes == {"function_call", "tool_call", "mcp_call", "mcp_approval_request",
              "mcp_list_tools", "tool_output", "reasoning", "code_interpreter",
              "computer_use"}
\* mutant: input_text entries are not text
TextChunkTypes_OutputOnly == {"output_text"}

TextChunkTypes == {"output_text", "input_text"}

\* the loop over the content entries cs of one message item, appending to the
\* sequence parts: the list of parts, or a raise
RECURSIVE ContentLoop(_, _)
ContentLoop(cs, parts) ==
    IF cs = <<>> THEN List(parts)
    ELSE LET c == Head(cs)
             ty == PyGet(c, "type", Null)
         IN IF IsRaise(ty) THEN ty
            ELSE IF Unhashable(ty) THEN Raise("TypeError")
            ELSE IF InStrSet(ty, TextChunkTypes) /\ Truthy(PyGet(c, "text", Null))
                 THEN ContentLoop(Tail(cs), Append(parts, c.fields["text"]))
                 ELSE ContentLoop(Tail(cs), parts)

\* the body of the loop over the output items, for one item: the list of
\* parts after it, or a raise
ItemParts(item, parts) ==
    LET t == PyGet(item, "type", Null)
    IN IF IsRaise(t) THEN t
       ELSE IF Unhashable(t) THEN Raise("TypeError")
       ELSE IF InStrSet(t, SkipTypes) THEN List(parts)
       ELSE LET content == IF t = Str("message")
                           THEN PyIter(PyGet(item, "content", EmptyList))
                           ELSE EmptyList
                afterMsg == IF IsRaise(content) THEN content
                            ELSE ContentLoop(content.items, parts)
            IN IF IsRaise(afterMsg) THEN afterMsg
               ELSE IF t = Str("output_text") /\ Truthy(PyGet(item, "text", Null))
                    THEN List(Append(afterMsg.items, item.fields["text"]))
                    ELSE afterMsg

RECURSIVE OutputLoop(_, _)
OutputLoop(items, parts) ==
    IF items = <<>> THEN List(parts)
    ELSE LET p == ItemParts(Head(items), parts)
         IN IF IsRaise(p) THEN p ELSE OutputLoop(Tail(items), p.items)

\* mutant: the last choice is read
FirstChoice_Last(choices) ==
    IF IsList(choices) THEN choices.items[Len(choices.items)] ELSE PyFirst(choices)

\* choices[0]
FirstChoice(choices) == PyFirst(choices)

\* mutant: a null output_text is returned as it is
OutputTextOf_NullKept(data) == data.fields["output_text"]

\* data["output_text"] or ""
OutputTextOf(data) == PyOr(data.fields["output_text"], Str(""))

_extract_text(data) ==
    IF HasKey(data, "output") \/ HasKey(data, "output_text")
    THEN IF HasKey(data, "output_text")
         THEN OutputTextOf(data)
         ELSE LET items == PyIter(PyGet(data, "output", EmptyList))
                  parts == IF IsRaise(items) THEN items
                           ELSE OutputLoop(items.items, <<>>)
              IN IF IsRaise(parts) THEN parts ELSE Join(parts.items)
    ELSE IF PyGet(data, "object", Null) = Str("chat.completion")
    THEN LET choices == PyOr(PyGet(data, "choices", Null), EmptyList)
         IN IF ~Truthy(choices) THEN Str("")
            ELSE LET first == FirstChoice(choices)
                     msg == IF IsRaise(first) THEN first
                            ELSE PyGet(first, "message", EmptyObj)
                     content == IF IsRaise(msg) THEN msg
                                ELSE PyGet(msg, "content", Null)
                 IN IF IsRaise(content) THEN content ELSE PyOr(content, Str(""))
    ELSE LET choices == PyGet(data, "choices", Null)
         IN IF Truthy(choices) /\ IsList(choices)
            THEN LET text == PyGet(FirstChoice(choices), "text", Str(""))
                 IN IF IsRaise(text) THEN text ELSE PyOr(text, Str(""))
            ELSE Str("")

\* ------------------------------------------------------------------------
\* CustomOpenAIChatCompletion._extract_tool_calls
\* ------------------------------------------------------------------------
\* the normalised tool call dict {type, id, function: {name, arguments}}
ToolCall(type, id, name, arguments) ==
    Obj([type |-> type, id |-> id,
         function |-> Obj([name |-> name, arguments |-> arguments])])

\* mutant: call_id before id
ItemCallId_CallIdFirst(item) ==
    PyOr(PyGet(item, "call_id", Null), PyGet(item, "id", Null))

\* item.get("id") or item.get("call_id")
ItemCallId(item) == PyOr(PyGet(item, "id", Null), PyGet(item, "call_id", Null))

\* the dict appended for one Responses-API item of a tool-call type
ResponsesToolCall(item, t) ==
    LET fn == PyGet(item, "function", EmptyObj)
        name == PyGet(fn, "name", Str(""))
        arguments == PyGet(fn, "arguments", Str(""))
    IN IF IsRaise(name) THEN name
       ELSE ToolCall(t, ItemCallId(item), name, arguments)

\* mutant: mcp_call items are not tool calls
ToolCallTypes_NoMcp == {"function_call", "tool_call"}

\* the item types that are tool calls
ToolCallTypes == {"function_call", "tool_call", "mcp_call"}

RECURSIVE ResponsesCallsLoop(_, _)
ResponsesCallsLoop(items, calls) ==
    IF items = <<>> THEN List(calls)
    ELSE LET item == Head(items)
             t == PyGet(item, "type", Null)
         IN IF IsRaise(t) THEN t
            ELSE IF Unhashable(t) THEN Raise("TypeError")
            ELSE IF InStrSet(t, ToolCallTypes)
            THEN LET call == ResponsesToolCall(item, t)
                 IN IF IsRaise(call) THEN call
                    ELSE ResponsesCallsLoop(Tail(items), Append(calls, call))
            ELSE ResponsesCallsLoop(Tail(items), calls)

\* mutant: no default type
ChatToolCallType_NoDefault(tc) == PyGet(tc, "type", Null)

\* tc.get("type", "function")
ChatToolCallType(tc) == PyGet(tc, "type", Str("function"))

\* the dict appended for one entry of message.tool_calls
ChatToolCall(tc) ==
    LET fn == PyGet(tc, "function", EmptyObj)
        name == PyGet(fn, "name", Str(""))
        arguments == PyGet(fn, "arguments", Str(""))
    IN IF IsRaise(fn) THEN fn
       ELSE IF IsRaise(name) THEN name
       ELSE ToolCall(ChatToolCallType(tc), PyGet(tc, "id", Null), name, arguments)

RECURSIVE ChatCallsLoop(_, _)
ChatCallsLoop(tcs, calls) ==
    IF tcs = <<>> THEN List(calls)
    ELSE LET call == ChatToolCall(Head(tcs))
         IN IF IsRaise(call) THEN call
            ELSE ChatCallsLoop(Tail(tcs), Append(calls, call))

_extract_tool_calls(data) ==
    IF HasKey(data, "output")
    THEN LET items == PyIter(data.fields["output"])
         IN IF IsRaise(items) THEN items
            ELSE ResponsesCallsLoop(items.items, <<>>)
    ELSE IF PyGet(data, "object", Null) = Str("chat.completion")
    THEN LET choices == PyOr(PyGet(data, "choices", Null), EmptyList)
         IN IF ~Truthy(choices) THEN EmptyList
            ELSE LET first == FirstChoice(choices)
                     msg == IF IsRaise(first) THEN first
                            ELSE PyGet(first, "message", EmptyObj)
                     tcs == IF IsRaise(msg) THEN msg
                            ELSE PyGet(msg, "tool_calls", Null)
                     iter == IF IsRaise(tcs) THEN tcs
                             ELSE PyIter(PyOr(tcs, EmptyList))
                 IN IF IsRaise(iter) THEN iter
                    ELSE ChatCallsLoop(iter.items, <<>>)
    ELSE EmptyList

\* ------------------------------------------------------------------------
\* State
\* ------------------------------------------------------------------------
VARIABLES
    pc,             \* position of the current invocation
    args,           \* the inputs of the invocation (the node's input sockets)
    messages,       \* execute's local `messages`, the decoded input list
    data,           \* the decoded response (completion.model_dump())
    response_text,  \* result of _extract_text
    tool_calls,     \* result of _extract_tool_calls
    messages_out,   \* execute's local `messages_out`
    outputs,        \* the NodeOutput returned to the host, if any
    requests,       \* chat requests issued by the current invocation
    err             \* the exception that ended the invocation, if any

vars == <<pc, args, messages, data, response_text, tool_calls, messages_out,
          outputs, requests, err>>

\* a variable that holds no value yet
Unset == [k |-> "unset"]

\* ------------------------------------------------------------------------
\* Bounded inputs: the response shapes of the three APIs, and malformed ones
\* ------------------------------------------------------------------------
MaxItems == 2
MaxContent == 2
MaxChoices == 2
MaxToolCalls == 2

SeqsUpTo(S, n) == UNION {[1..m -> S] : m \in 0..n}

\* a dict with the key absent, or present with one of the values
Opt(key, vals) == {NoFields} \cup {key :> v : v \in vals}

TextValues == {Null, Str(""), Str("a"), Str("b")}

ContentEntries ==
    {Obj([type |-> Str("output_text"), text |-> Str("a")]),
     Obj([type |-> Str("input_text"), text |-> Str("b")]),
     Obj([type |-> Str("output_text"), text |-> Str("")]),
     Obj([type |-> Str("output_text"), text |-> Null]),
     Obj([type |-> Str("input_text")]),
     Obj([type |-> Str("refusal"), text |-> Str("a")])}

MessageItems ==
    {Obj([type |-> Str("message")])}
    \cup {Obj([type |-> Str("message"), content |-> List(cs)]) :
             cs \in SeqsUpTo(ContentEntries, MaxContent)}

StandaloneTextItems ==
    {Obj(("type" :> Str("output_text")) @@ o) : o \in Opt("text", TextValues)}

OtherItems ==
    {Obj([type |-> Str(t), text |-> Str("r")]) :
        t \in {"reasoning", "tool_output", "computer_use", "summary"}}
    \cup {Obj([text |-> Str("r")]), Obj([type |-> Null, text |-> Str("r")])}

FunctionObjs ==
    {EmptyObj, Obj([name |-> Str("f")]), Obj([arguments |-> Str("{}")]),
     Obj([name |-> Str("f"), arguments |-> Str("{}")])}

CallItems ==
    {Obj(("type" :> Str(t)) @@ i @@ c @@ f) :
        t \in {"function_call", "tool_call", "mcp_call"},
        i \in Opt("id", {Null, Str(""), Str("i1")}),
        c \in Opt("call_id", {Str("c1")}),
        f \in Opt("function", {Obj([name |-> Str("f"), arguments |-> Str("{}")])})}
    \cup {Obj([type |-> Str("function_call"), id |-> Str("i1"), function |-> f]) :
             f \in FunctionObjs}

\* the items that mixed output lists are built from
SeqItems ==
    {Obj([type |-> Str("message"),
          content |-> List(<<Obj([type |-> Str("output_text"), text |-> Str("a")])>>)]),
     Obj([type |-> Str("output_text"), text |-> Str("b")]),
     Obj([type |-> Str("reasoning"), text |-> Str("r")]),
     Obj([type |-> Str("function_call"), id |-> Str("i1"), call_id |-> Str("c1"),
          text |-> Str("t"),
          function |-> Obj([name |-> Str("f"), arguments |-> Str("{}")])]),
     Obj([type |-> Str("tool_call"), call_id |-> Str("c2"),
          function |-> Obj([name |-> Str("g")])]),
     Obj([type |-> Str("mcp_call"), id |-> Str("i3")])}

Outputs ==
    SeqsUpTo(SeqItems, MaxItems)
    \cup {<<i>> : i \in MessageItems \cup StandaloneTextItems \cup OtherItems
                        \cup CallItems}

\* entries of choices[0].message.tool_calls
ToolCallEntries ==
    {Obj(t @@ i @@ f) :
        t \in Opt("type", {Str("function"), Str("custom")}),
        i \in Opt("id", {Null, Str("c1")}),
        f \in Opt("function", FunctionObjs)}

SeqToolCallEntries ==
    {Obj([type |-> Str("function"), id |-> Str("c1"),
          function |-> Obj([name |-> Str("f"), arguments |-> Str("{}")])]),
     Obj([id |-> Str("c2"), function |-> Obj([name |-> Str("g")])]),
     Obj([type |-> Str("custom"), id |-> Str("c3")])}

ToolCallLists ==
    SeqsUpTo(SeqToolCallEntries, MaxToolCalls)
    \cup {<<tc>> : tc \in ToolCallEntries}

SampleToolCalls ==
    List(<<Obj([type |-> Str("function"), id |-> Str("c1"),
                function |-> Obj([name |-> Str("f"), arguments |-> Str("{}")])])>>)

ChoiceMessages ==
    {Obj(c @@ t) : c \in Opt("content", TextValues),
                   t \in Opt("tool_calls", {Null, SampleToolCalls})}
    \cup {Obj([tool_calls |-> List(l)]) : l \in ToolCallLists}

FirstChoices ==
    {Obj([message |-> m]) : m \in ChoiceMessages}
    \cup {Obj(tx @@ m) :
            tx \in Opt("text", {Null, Str(""), Str("x")}),
            m \in Opt("message", {Obj([content |-> Str("m"),
                                       tool_calls |-> SampleToolCalls])})}

OtherChoices ==
    {EmptyObj,
     Obj([text |-> Str("z"),
          message |-> Obj([content |-> Str("z"),
                           tool_calls |-> List(<<Obj([id |-> Str("z")])>>)])])}

ChoiceLists ==
    {<<>>}
    \cup {<<c>> \o rest : c \in FirstChoices,
                          rest \in SeqsUpTo(OtherChoices, MaxChoices - 1)}

ChatCompletion == Str("chat.completion")

\* object/choices keys that accompany output or output_text
ChatExtras ==
    {NoFields,
     [object |-> ChatCompletion,
      choices |-> List(<<Obj([message |-> Obj([content |-> Str("m"),
                                               tool_calls |-> SampleToolCalls])])>>)],
     [choices |-> List(<<Obj([text |-> Str("x")])>>)]}

OutputTextValues ==
    TextValues \cup {Num(0), Num(5), Bool(FALSE), EmptyList}

SampleOutput ==
    List(<<Obj([type |-> Str("output_text"), text |-> Str("o")]),
           Obj([type |-> Str("function_call"), id |-> Str("i1")])>>)

ResponsesApiResponses ==
    {Obj(("output" :> List(o)) @@ e) : o \in Outputs, e \in ChatExtras}
    \cup {Obj(("output_text" :> t) @@ o @@ e) :
             t \in OutputTextValues,
             o \in Opt("output", {SampleOutput, Null}),
             e \in ChatExtras}

ChoicesResponses ==
    {Obj(ob @@ ch) :
        ob \in Opt("object", {ChatCompletion, Str("text_completion")}),
        ch \in Opt("choices", {Null} \cup {List(l) : l \in ChoiceLists})}

\* shapes the three APIs never produce
MalformedResponses ==
    {Obj([output |-> o]) :
        o \in {Null, Num(1), Str("x"), Obj([type |-> Str("message")]),
               List(<<Null>>), List(<<Str("x")>>),
               List(<<Obj([type |-> EmptyList])>>),
               List(<<Obj([type |-> Str("message"), content |-> Null])>>),
               List(<<Obj([type |-> Str("message"), content |-> List(<<Null>>)])>>),
               List(<<Obj([type |-> Str("message"),
                           content |-> List(<<Obj([type |-> Str("output_text"),
                                                   text |-> Num(5)])>>)])>>),
               List(<<Obj([type |-> Str("output_text"), text |-> Num(5)])>>),
               List(<<Obj([type |-> Str("function_call"), function |-> Null])>>)}}
    \cup {Obj(ob @@ ("choices" :> c)) :
            ob \in Opt("object", {ChatCompletion}),
            c \in {Num(1), Str("x"), Obj([a |-> Null]), List(<<Null>>),
                   List(<<Str("x")>>), List(<<Obj([message |-> Null])>>),
                   List(<<Obj([message |-> Obj([tool_calls |-> Num(1)])])>>),
                   List(<<Obj([message |-> Obj([tool_calls |-> List(<<Null>>)])])>>),
                   List(<<Obj([message |->
                        Obj([tool_calls |-> List(<<Obj([function |-> Null])>>)])])>>)}}

Responses == ResponsesApiResponses \cup ChoicesResponses \cup MalformedResponses

\* ------------------------------------------------------------------------
\* The normaliser applied to one response
\* ------------------------------------------------------------------------
InitExtract ==
    /\ pc = "extract"
    /\ data \in Responses
    /\ response_text = Unset
    /\ tool_calls = Unset
    /\ args = Unset
    /\ messages = Unset
    /\ messages_out = Unset
    /\ outputs = Unset
    /\ requests = 0
    /\ err = Unset

ExtractText ==
    /\ pc = "extract"
    /\ response_text = Unset
    /\ response_text' = _extract_text(data)
    /\ UNCHANGED <<pc, args, messages, data, tool_calls, messages_out, outputs,
                   requests, err>>

ExtractToolCalls ==
    /\ pc = "extract"
    /\ tool_calls = Unset
    /\ tool_calls' = _extract_tool_calls(data)
    /\ UNCHANGED <<pc, args, messages, data, response_text, messages_out, outputs,
                   requests, err>>

NextExtract == ExtractText \/ ExtractToolCalls

SpecExtract == InitExtract /\ [][NextExtract]_vars

\* ------------------------------------------------------------------------
\* JSON text: json.loads and json.dumps
\* ------------------------------------------------------------------------
\* the text json.dumps writes for a value; json.loads reads the value back
JsonText(v) == [k |-> "text", doc |-> v]
\* a non-empty string that is not JSON
BadText == [k |-> "badtext"]

json_dumps(v) == JsonText(v)
json_loads(t) == IF t.k = "text" THEN t.doc ELSE Raise("JSONDecodeError")

\* `not s` for an optional string input: None and "" are falsy
TextGiven(t) == t # Null /\ t # Str("")

\* ------------------------------------------------------------------------
\* CustomOpenAIChatCompletion.execute
\* ------------------------------------------------------------------------
MaxMsgs == 2

UserMessage ==
    Obj([role |-> Str("user"),
         content |-> List(<<Obj([type |-> Str("text"), text |-> Str("hi")])>>)])

ExecMessageLists ==
    SeqsUpTo({UserMessage, Obj([role |-> Str("system"), content |-> EmptyList])},
             MaxMsgs)

ExecuteArgs ==
    [api_key : {"", "k"},
     env_api_key : {"", "e"},
     messages_json : {Null, Str(""), BadText, JsonText(Obj([role |-> Str("user")])),
                      JsonText(Num(1))}
                     \cup {JsonText(List(l)) : l \in ExecMessageLists},
     tools_json : {Str(""), BadText, JsonText(EmptyList),
                   JsonText(List(<<Obj([type |-> Str("function")])>>))}]

\* the responses the endpoint answers with
ExecResponses ==
    {Obj([output |-> List(o)]) : o \in SeqsUpTo(SeqItems, MaxItems)}
    \cup {Obj([object |-> ChatCompletion, choices |-> List(<<Obj([message |-> m])>>)]) :
             m \in ChoiceMessages}
    \cup {Obj([output_text |-> t]) : t \in TextValues}
    \cup MalformedResponses

\* the key the request is sent with: the input, else OPENAI_API_KEY
EffectiveApiKey(a) == IF a.api_key # "" THEN a.api_key ELSE a.env_api_key

\* the checks before the request: the decoded messages, or the exception
ExecuteChecks(a) ==
    IF EffectiveApiKey(a) = "" THEN Raise("ValueError")
    ELSE IF ~TextGiven(a.messages_json) THEN Raise("ValueError")
    ELSE LET decoded == json_loads(a.messages_json)
         IN IF IsRaise(decoded) THEN decoded
            ELSE IF ~IsList(decoded) \/ Len(decoded.items) = 0 THEN Raise("ValueError")
            ELSE IF TextGiven(a.tools_json) /\ IsRaise(json_loads(a.tools_json))
                 THEN Raise("JSONDecodeError")
            ELSE decoded

\* mutant: content and tool_calls are always present
AssistantMessage_AllKeys(text, calls) ==
    Obj([role |-> Str("assistant"),
         content |-> List(<<Obj([type |-> Str("text"), text |-> text])>>),
         tool_calls |-> calls])

\* the assistant message appended to the messages
AssistantMessage(text, calls) ==
    Obj(("role" :> Str("assistant"))
        @@ (IF Truthy(text)
            THEN "content" :> List(<<Obj([type |-> Str("text"), text |-> text])>>)
            ELSE NoFields)
        @@ (IF Truthy(calls) THEN "tool_calls" :> calls ELSE NoFields))

Init ==
    /\ pc = "idle"
    /\ args = Unset
    /\ messages = Unset
    /\ data = Unset
    /\ response_text = Unset
    /\ tool_calls = Unset
    /\ messages_out = Unset
    /\ outputs = Unset
    /\ requests = 0
    /\ err = Unset

\* the host calls execute: the checks, then the chat request is sent
ExecuteStart ==
    /\ pc = "idle"
    /\ \E a \in ExecuteArgs :
          LET checked == ExecuteChecks(a)
          IN /\ args' = a
             /\ IF IsRaise(checked)
                THEN /\ pc' = "error"
                     /\ err' = checked
                     /\ UNCHANGED <<messages, requests>>
                ELSE /\ pc' = "requesting"
                     /\ messages' = checked
                     /\ requests' = requests + 1
                     /\ err' = err
    /\ UNCHANGED <<data, response_text, tool_calls, messages_out, outputs>>

\* mutant: a failed request is sent again
RequestFails_Retry ==
    /\ pc = "requesting"
    /\ requests' = requests + 1
    /\ UNCHANGED <<pc, args, messages, data, response_text, tool_calls, messages_out,
                   outputs, err>>

\* client.chat.completions.create raises: the exception leaves execute
RequestFails ==
    /\ pc = "requesting"
    /\ pc' = "error"
    /\ err' = Raise("APIError")
    /\ UNCHANGED <<args, messages, data, response_text, tool_calls, messages_out,
                   outputs, requests>>

\* the request returns: extraction, the assistant turn and the NodeOutput
RequestReturns ==
    /\ pc = "requesting"
    /\ \E d \in ExecResponses :
          LET text == _extract_text(d)
              calls == _extract_tool_calls(d)
          IN /\ data' = d
             /\ IF IsRaise(text) \/ IsRaise(calls)
                THEN /\ pc' = "error"
                     /\ err' = IF IsRaise(text) THEN text ELSE calls
                     /\ response_text' = IF IsRaise(text) THEN Unset ELSE text
                     /\ UNCHANGED <<tool_calls, messages_out, outputs>>
                ELSE /\ pc' = "done"
                     /\ response_text' = text
                     /\ tool_calls' = calls
                     /\ messages_out' =
                           List(Append(messages.items, AssistantMessage(text, calls)))
                     /\ outputs' = [response_text |-> text,
                                    raw_json |-> json_dumps(d),
                                    tool_calls_json |-> json_dumps(calls),
                                    messages_json_out |-> json_dumps(messages_out')]
                     /\ err' = err
    /\ UNCHANGED <<args, messages, requests>>

Next == ExecuteStart \/ RequestFails \/ RequestReturns

Spec == Init /\ [][Next]_vars

\* ------------------------------------------------------------------------
\* ChatMessagesCreate.execute
\* ------------------------------------------------------------------------
Roles == {"user", "system", "assistant", "tool"}

\* tensor_to_data_uri(image, mime_type="image/png")
tensor_to_data_uri(image) == Str("data:image/png;base64," \o image)

AssistantWith(tcs) == Obj([role |-> Str("assistant"), tool_calls |-> List(tcs)])

\* the messages that the input lists of the builder are made of
InputMessages ==
    {UserMessage,
     Obj([role |-> Str("assistant"), content |-> EmptyList]),
     Obj([role |-> Str("user"), tool_calls |-> List(<<Obj([id |-> Str("u1")])>>)]),
     Obj([role |-> Str("tool"), tool_call_id |-> Str("t1"), content |-> EmptyList]),
     AssistantWith(<<>>),
     AssistantWith(<<Obj([id |-> Str("c1")])>>),
     AssistantWith(<<Obj([id |-> Str("c1")]), Obj([call_id |-> Str("k2")])>>),
     AssistantWith(<<Obj([id |-> Str("c3")]), Obj([id |-> Str("")])>>),
     AssistantWith(<<Obj([id |-> Str(""), call_id |-> Str("k4")])>>),
     Obj([role |-> Str("assistant"), tool_calls |-> Null])}

CreateArgs ==
    [messages_json : {Str(""), BadText}
                     \cup {JsonText(List(l)) : l \in SeqsUpTo(InputMessages, MaxMsgs)},
     role : Roles,
     content : {"", "hi"},
     image : {Null, Str("IMG")}]

\* content_parts / message_content: the text part, then the image part
MessageContent(content, image) ==
    List((IF content # "" THEN <<Obj([type |-> Str("text"), text |-> Str(content)])>>
          ELSE <<>>)
         \o (IF image # Null
             THEN <<Obj([type |-> Str("image_url"),
                         image_url |-> Obj([url |-> tensor_to_data_uri(image.s),
                                            detail |-> Str("auto")])])>>
             ELSE <<>>))

\* last_call.get("id") or last_call.get("call_id") or ""
LastCallId(last_call) ==
    PyOr(PyOr(PyGet(last_call, "id", Null), PyGet(last_call, "call_id", Null)), Str(""))

\* mutant: the first tool call of the message is read
ScanStep_FirstCall(prev, tc_id) ==
    LET tc_list == PyGet(prev, "tool_calls", Null)
    IN IF IsList(tc_list) /\ Truthy(tc_list)
       THEN LET first_call == tc_list.items[1]
            IN IF IsObj(first_call) THEN LastCallId(first_call) ELSE tc_id
       ELSE tc_id

\* one pass of the loop body over prev, tc_id being the id found so far: the
\* new tc_id
ScanStep(prev, tc_id) ==
    LET tc_list == PyGet(prev, "tool_calls", Null)
    IN IF IsList(tc_list) /\ Truthy(tc_list)
       THEN LET last_call == tc_list.items[Len(tc_list.items)]
            IN IF IsObj(last_call) THEN LastCallId(last_call) ELSE tc_id
       ELSE tc_id

\* mutant: the role is not looked at
IsScanned_AnyRole(prev) == TRUE

\* whether the loop looks at prev at all
IsScanned(prev) == PyGet(prev, "role", Null) = Str("assistant")

\* for prev in reversed(messages): msgs[1..i] are still to visit, from i down
RECURSIVE ScanToolCallId(_, _, _)
ScanToolCallId(msgs, i, tc_id) ==
    IF i = 0 THEN tc_id
    ELSE IF IsRaise(PyGet(msgs[i], "role", Null)) THEN Raise("AttributeError")
    ELSE IF ~IsScanned(msgs[i]) THEN ScanToolCallId(msgs, i - 1, tc_id)
    ELSE LET found == ScanStep(msgs[i], tc_id)
         IN IF Truthy(found) THEN found ELSE ScanToolCallId(msgs, i - 1, found)

\* the message the builder appends, or the exception it raises
NewMessage(msgs, a) ==
    LET base == ("role" :> Str(a.role)) @@ ("content" :> MessageContent(a.content, a.image))
    IN IF a.role = "tool"
       THEN LET tc_id == ScanToolCallId(msgs, Len(msgs), Str(""))
            IN IF IsRaise(tc_id) THEN tc_id
               ELSE IF ~Truthy(tc_id) THEN Raise("ValueError")
               ELSE Obj(base @@ ("tool_call_id" :> tc_id))
       ELSE Obj(base)

\* messages = list(json.loads(messages_json)) if messages_json else []
CreateDecode(t) == IF TextGiven(t) THEN json_loads(t) ELSE EmptyList

InitCreate ==
    /\ pc = "create"
    /\ args \in CreateArgs
    /\ messages = Unset
    /\ data = Unset
    /\ response_text = Unset
    /\ tool_calls = Unset
    /\ messages_out = Unset
    /\ outputs = Unset
    /\ requests = 0
    /\ err = Unset

CreateMessage ==
    /\ pc = "create"
    /\ LET decoded == CreateDecode(args.messages_json)
           message == IF IsRaise(decoded) THEN decoded
                      ELSE NewMessage(decoded.items, args)
       IN IF IsRaise(message)
          THEN /\ pc' = "error"
               /\ err' = message
               /\ messages' = IF IsRaise(decoded) THEN messages ELSE decoded
               /\ outputs' = outputs
          ELSE /\ pc' = "done"
               /\ messages' = List(Append(decoded.items, message))
               /\ outputs' = json_dumps(messages')
               /\ err' = err
    /\ UNCHANGED <<args, data, response_text, tool_calls, messages_out, requests>>

NextCreate == CreateMessage

SpecCreate == InitCreate /\ [][NextCreate]_vars

\* ------------------------------------------------------------------------
\* JSONPathSelect.execute (src/json_path_select.py)
\* ------------------------------------------------------------------------
MaxPath == 2

\* a JMESPath expression: a chain of sub-expressions, each an identifier
\* (Str) or an index (Num), as in choices[0].message
Path(steps) == [k |-> "path", steps |-> steps]
\* a non-empty string that is not a JMESPath expression
BadPath == [k |-> "badpath"]

\* one sub-expression applied to a value: a field of an object, an element
\* of a list, null for anything else
PathStep(v, step) ==
    IF IsStr(step)
    THEN IF IsObj(v) /\ HasKey(v, step.s) THEN v.fields[step.s] ELSE Null
    ELSE IF IsList(v) /\ step.n + 1 <= Len(v.items) THEN v.items[step.n + 1]
    ELSE Null

RECURSIVE PathWalk(_, _)
PathWalk(v, steps) ==
    IF steps = <<>> THEN v ELSE PathWalk(PathStep(v, Head(steps)), Tail(steps))

\* jmespath.search(path, data): the value, or the exception of a bad expression
jmespath_search(path, doc) ==
    IF path.k = "path" THEN PathWalk(doc, path.steps) ELSE Raise("ParseError")

\* str(current) for a str, an int or a bool
PyStr(v) ==
    CASE v.k = "str" -> v
      [] v.k = "num" -> Str(ToString(v.n))
      [] v.k = "bool" -> IF v.b THEN Str("True") ELSE Str("False")

\* isinstance(current, (str, int, float, bool))
IsScalar(v) == v.k \in {"str", "num", "bool"}

\* try: return NodeOutput(json.dumps(current, indent=2))
\* finally: return NodeOutput(""): the return of finally replaces the other
DumpsThenFinally(current) == Str("")

\* the value execute outputs, or the exception it raises
SelectValue(a) ==
    IF ~TextGiven(a.json_text) \/ a.path = Str("") THEN Str("")
    ELSE LET doc == json_loads(a.json_text)
             current == IF IsRaise(doc) THEN doc ELSE jmespath_search(a.path, doc)
         IN IF IsRaise(doc) THEN doc
            ELSE IF IsRaise(current) THEN Str("")
            ELSE IF IsScalar(current) THEN PyStr(current)
            ELSE DumpsThenFinally(current)

SelectDocs ==
    {Obj([a |-> Str("s"), e |-> Str(""), n |-> Num(5), t |-> Bool(TRUE),
          u |-> Null, l |-> List(<<Num(1), Str("x")>>),
          o |-> Obj([a |-> Str("v"), l |-> EmptyList])]),
     List(<<Str("x"), Obj([a |-> Num(0)])>>),
     Str("top"),
     EmptyObj}

PathSteps == {Str("a"), Str("e"), Str("n"), Str("t"), Str("u"), Str("l"),
              Str("o"), Str("missing"), Num(0), Num(1)}

SelectArgs ==
    [json_text : {Str(""), BadText} \cup {JsonText(d) : d \in SelectDocs},
     path : {Str(""), BadPath}
            \cup {Path(st) : st \in SeqsUpTo(PathSteps, MaxPath) \ {<<>>}}]

InitSelect ==
    /\ pc = "select"
    /\ args \in SelectArgs
    /\ messages = Unset
    /\ data = Unset
    /\ response_text = Unset
    /\ tool_calls = Unset
    /\ messages_out = Unset
    /\ outputs = Unset
    /\ requests = 0
    /\ err = Unset

JSONPathSelect_execute ==
    /\ pc = "select"
    /\ LET value == SelectValue(args)
       IN IF IsRaise(value)
          THEN pc' = "error" /\ err' = value /\ outputs' = outputs
          ELSE pc' = "done" /\ outputs' = value /\ err' = err
    /\ UNCHANGED <<args, messages, data, response_text, tool_calls, messages_out,
                   requests>>

NextSelect == JSONPathSelect_execute

SpecSelect == InitSelect /\ [][NextSelect]_vars

\* ------------------------------------------------------------------------
\* EnvVarNode.execute (src/env_var_node.py)
\* ------------------------------------------------------------------------
\* the key has no entry (in os.environ, or in the .env file)
Absent == [k |-> "absent"]
\* there is no .env file
NoFile == [k |-> "nofile"]

\* _dotenv_keys(): whether the key is among the keys of the .env file
InDotenvKeys(dotenv) == dotenv \notin {NoFile, Absent}

\* _dotenv_value_for(env_key)
_dotenv_value_for(dotenv) == IF InDotenvKeys(dotenv) THEN dotenv ELSE Str("")

\* env_key in os.environ
InEnviron(environ) == environ # Absent

\* os.environ.get(env_key, "")
EnvironGet(environ) == IF InEnviron(environ) THEN environ ELSE Str("")

\* the key is set neither in os.environ nor in the .env file
NotSet(a) == ~InEnviron(a.environ) /\ ~InDotenvKeys(a.dotenv)

\* the value execute outputs, or the exception it raises
ResolveEnv(a) ==
    IF a.env_key = ""
    THEN IF a.error_when_missing THEN Raise("ValueError") ELSE Str("")
    ELSE LET env_value == EnvironGet(a.environ)
             resolved == IF Truthy(env_value) THEN env_value
                         ELSE _dotenv_value_for(a.dotenv)
         IN IF ~Truthy(resolved) /\ (a.default_value # "" \/ a.use_fallback_when_empty)
            THEN IF a.error_when_missing /\ NotSet(a) THEN Raise("ValueError")
                 ELSE IF a.use_fallback_when_empty \/ ~InEnviron(a.environ)
                 THEN Str(a.default_value)
                 ELSE resolved
            ELSE IF ~Truthy(resolved) /\ a.error_when_missing /\ NotSet(a)
            THEN Raise("ValueError")
            ELSE resolved

\* the inputs, with the entry of env_key in os.environ and in the .env file
EnvVarArgs ==
    [env_key : {"", "K"},
     default_value : {"", "d"},
     use_fallback_when_empty : BOOLEAN,
     error_when_missing : BOOLEAN,
     environ : {Absent, Str(""), Str("v")},
     dotenv : {NoFile, Absent, Str(""), Str("w")}]

InitEnv ==
    /\ pc = "env"
    /\ args \in EnvVarArgs
    /\ messages = Unset
    /\ data = Unset
    /\ response_text = Unset
    /\ tool_calls = Unset
    /\ messages_out = Unset
    /\ outputs = Unset
    /\ requests = 0
    /\ err = Unset

EnvVarNode_execute ==
    /\ pc = "env"
    /\ LET value == ResolveEnv(args)
       IN IF IsRaise(value)
          THEN pc' = "error" /\ err' = value /\ outputs' = outputs
          ELSE pc' = "done" /\ outputs' = value /\ err' = err
    /\ UNCHANGED <<args, messages, data, response_text, tool_calls, messages_out,
                   requests>>

NextEnv == EnvVarNode_execute

SpecEnv == InitEnv /\ [][NextEnv]_vars

\* ------------------------------------------------------------------------
\* What the data model says of a response: the shapes the claims cover
\* ------------------------------------------------------------------------
TextDone == response_text # Unset
CallsDone == tool_calls # Unset

\* the key is absent, or holds a string or null
StrOrNullAt(d, key) == HasKey(d, key) => d.fields[key].k \in {"str", "null"}

\* the value at the key, null when the key is absent
At(d, key) == IF HasKey(d, key) THEN d.fields[key] ELSE Null

TypedContentEntry(c) ==
    IsObj(c) /\ StrOrNullAt(c, "type") /\ StrOrNullAt(c, "text")

TypedOutputItem(item) ==
    /\ IsObj(item)
    /\ StrOrNullAt(item, "type") /\ StrOrNullAt(item, "text")
    /\ StrOrNullAt(item, "id") /\ StrOrNullAt(item, "call_id")
    /\ HasKey(item, "content") =>
          /\ IsList(item.fields["content"])
          /\ \A i \in 1..Len(item.fields["content"].items) :
                TypedContentEntry(item.fields["content"].items[i])
    /\ HasKey(item, "function") =>
          /\ IsObj(item.fields["function"])
          /\ StrOrNullAt(item.fields["function"], "name")
          /\ StrOrNullAt(item.fields["function"], "arguments")

\* `output` is present and is an ordered sequence of typed items
TypedOutput(d) ==
    /\ HasKey(d, "output")
    /\ IsList(d.fields["output"])
    /\ \A i \in 1..Len(d.fields["output"].items) :
          TypedOutputItem(d.fields["output"].items[i])

TypedToolCallEntry(tc) ==
    /\ IsObj(tc)
    /\ StrOrNullAt(tc, "type") /\ StrOrNullAt(tc, "id")
    /\ HasKey(tc, "function") =>
          /\ IsObj(tc.fields["function"])
          /\ StrOrNullAt(tc.fields["function"], "name")
          /\ StrOrNullAt(tc.fields["function"], "arguments")

TypedChoice(c) ==
    /\ IsObj(c)
    /\ StrOrNullAt(c, "text")
    /\ HasKey(c, "message") =>
          /\ IsObj(c.fields["message"])
          /\ StrOrNullAt(c.fields["message"], "content")
          /\ HasKey(c.fields["message"], "tool_calls") =>
                LET tcs == c.fields["message"].fields["tool_calls"]
                IN tcs = Null \/ (IsList(tcs) /\ \A i \in 1..Len(tcs.items) :
                                                   TypedToolCallEntry(tcs.items[i]))

\* `choices` is absent, null or an ordered sequence of typed choices
TypedChoices(d) ==
    /\ StrOrNullAt(d, "object")
    /\ HasKey(d, "choices") =>
          \/ d.fields["choices"] = Null
          \/ /\ IsList(d.fields["choices"])
             /\ \A i \in 1..Len(d.fields["choices"].items) :
                   TypedChoice(d.fields["choices"].items[i])

\* the choices of a response, empty when absent or null
ChoicesOf(d) == IF IsList(At(d, "choices")) THEN d.fields["choices"].items ELSE <<>>

\* concatenation of a sequence of TLA+ strings
RECURSIVE Concat(_)
Concat(ss) == IF ss = <<>> THEN "" ELSE Head(ss) \o Concat(Tail(ss))

\* the string at the key, "" when it is absent or null
TextAt(d, key) == IF IsStr(At(d, key)) THEN d.fields[key].s ELSE ""

\* ------------------------------------------------------------------------
\* C1
\* ------------------------------------------------------------------------
\* C1: for every response with a top-level output_text (a string or null),
\* whatever output, object and choices it also has, _extract_text returns
\* output_text unchanged, and the empty string when it is null.
C1_OutputTextVerbatim ==
    (TextDone /\ HasKey(data, "output_text") /\ StrOrNullAt(data, "output_text"))
        => response_text = IF data.fields["output_text"] = Null THEN Str("")
                           ELSE data.fields["output_text"]

\* a response with output_text "a", an output list and chat choices: "a" returned
C1_Witness ==
    /\ TextDone
    /\ HasKey(data, "output_text") /\ HasKey(data, "output") /\ HasKey(data, "choices")
    /\ data.fields["output_text"] = Str("a")
    /\ response_text = Str("a")

\* ------------------------------------------------------------------------
\* C2
\* ------------------------------------------------------------------------
\* the text one content entry of a message contributes
EntryFragment(c) ==
    IF At(c, "type") \in {Str("output_text"), Str("input_text")}
    THEN TextAt(c, "text") ELSE ""

\* the text one output item contributes
ItemFragment(item) ==
    IF At(item, "type") = Str("message")
    THEN LET cs == IF HasKey(item, "content") THEN item.fields["content"].items
                   ELSE <<>>
         IN Concat([i \in 1..Len(cs) |-> EntryFragment(cs[i])])
    ELSE IF At(item, "type") = Str("output_text") THEN TextAt(item, "text")
    ELSE ""

\* C2: for every response with output (a sequence of typed items) and no
\* output_text, _extract_text returns the concatenation, in order and with no
\* separator, of the text of the output_text/input_text content entries of
\* the message items and of the text of the output_text items; every other
\* item contributes nothing.
C2_OutputConcatenation ==
    (TextDone /\ TypedOutput(data) /\ ~HasKey(data, "output_text"))
        => LET items == data.fields["output"].items
           IN response_text =
                 Str(Concat([i \in 1..Len(items) |-> ItemFragment(items[i])]))

\* a message item and a reasoning item: only the message's text is returned
C2_Witness ==
    /\ TextDone /\ TypedOutput(data) /\ ~HasKey(data, "output_text")
    /\ Len(data.fields["output"].items) = 2
    /\ \E i \in 1..2 : At(data.fields["output"].items[i], "type") = Str("reasoning")
    /\ \E i \in 1..2 : At(data.fields["output"].items[i], "type") = Str("message")
    /\ response_text = Str("a")

\* ------------------------------------------------------------------------
\* C3
\* ------------------------------------------------------------------------
\* C3: for every response with neither output nor output_text (choices
\* absent, null or a sequence of typed choices), _extract_text reads the
\* first choice only: message.content for a chat.completion, text otherwise,
\* and the empty string when there is no first choice or the field is
\* absent or null.
C3_FirstChoiceText ==
    (TextDone /\ ~HasKey(data, "output") /\ ~HasKey(data, "output_text")
        /\ TypedChoices(data))
        => LET choices == ChoicesOf(data)
           IN response_text =
                 IF choices = <<>> THEN Str("")
                 ELSE IF At(data, "object") = Str("chat.completion")
                 THEN IF HasKey(choices[1], "message")
                      THEN Str(TextAt(choices[1].fields["message"], "content"))
                      ELSE Str("")
                 ELSE Str(TextAt(choices[1], "text"))

\* a legacy response with two choices: the text of the first is returned
C3_Witness ==
    /\ TextDone /\ ~HasKey(data, "output") /\ ~HasKey(data, "output_text")
    /\ At(data, "object") # Str("chat.completion")
    /\ Len(ChoicesOf(data)) = 2
    /\ At(ChoicesOf(data)[1], "text") = Str("x")
    /\ At(ChoicesOf(data)[2], "text") = Str("z")
    /\ response_text = Str("x")

\* ------------------------------------------------------------------------
\* C4
\* ------------------------------------------------------------------------
IsCallItem(item) ==
    At(item, "type") \in {Str("function_call"), Str("tool_call"), Str("mcp_call")}

\* the output items that are tool calls, in order
CallItemsOf(d) == SelectSeq(d.fields["output"].items, IsCallItem)

\* function.<key> of an item or tool_calls entry, "" when absent
FunctionField(o, key) ==
    IF HasKey(o, "function") /\ HasKey(o.fields["function"], key)
    THEN o.fields["function"].fields[key]
    ELSE Str("")

\* C4: for every response with output (a sequence of typed items),
\* _extract_tool_calls returns one ToolCall per item of type function_call,
\* tool_call or mcp_call, in the order of the items, whatever object and
\* choices hold: nothing comes from choices, also when no item matches.
C4_OneCallPerCallItem ==
    (CallsDone /\ TypedOutput(data))
        => LET sel == CallItemsOf(data)
           IN /\ IsList(tool_calls)
              /\ Len(tool_calls.items) = Len(sel)
              /\ \A i \in 1..Len(sel) :
                    LET call == tool_calls.items[i]
                    IN /\ IsObj(call)
                       /\ DOMAIN call.fields = {"type", "id", "function"}
                       /\ call.fields["type"] = sel[i].fields["type"]
                       /\ call.fields["function"] =
                             Obj([name |-> FunctionField(sel[i], "name"),
                                  arguments |-> FunctionField(sel[i], "arguments")])

\* output without a tool-call item, next to a chat.completion whose first
\* choice carries tool calls: the result is empty
C4_Witness ==
    /\ CallsDone /\ TypedOutput(data)
    /\ Len(data.fields["output"].items) = 1
    /\ CallItemsOf(data) = <<>>
    /\ At(data, "object") = Str("chat.completion")
    /\ Truthy(At(At(ChoicesOf(data)[1], "message"), "tool_calls"))
    /\ tool_calls = EmptyList

\* ------------------------------------------------------------------------
\* C5
\* ------------------------------------------------------------------------
\* C5 as claimed: the ToolCall's id is the item's id whenever that id is
\* non-null, and the item's call_id only when id is absent or null.
C5_FirstNonNullId ==
    (CallsDone /\ TypedOutput(data))
        => LET sel == CallItemsOf(data)
           IN \A i \in 1..Len(sel) :
                 tool_calls.items[i].fields["id"] =
                    IF At(sel[i], "id") # Null THEN sel[i].fields["id"]
                    ELSE At(sel[i], "call_id")

\* C5 as amended: the ToolCall's id is the item's id whenever that id is
\* truthy (neither null nor the empty string); when id is absent, null or
\* empty it is the item's call_id, null when call_id is absent.
C5_FirstTruthyId ==
    (CallsDone /\ TypedOutput(data))
        => LET sel == CallItemsOf(data)
           IN \A i \in 1..Len(sel) :
                 tool_calls.items[i].fields["id"] =
                    IF At(sel[i], "id") \notin {Null, Str("")} THEN sel[i].fields["id"]
                    ELSE At(sel[i], "call_id")

\* an item with the empty string as id and a call_id: the call_id is used
C5_Witness ==
    /\ CallsDone /\ TypedOutput(data)
    /\ Len(CallItemsOf(data)) = 1
    /\ At(CallItemsOf(data)[1], "id") = Str("")
    /\ At(CallItemsOf(data)[1], "call_id") = Str("c1")
    /\ tool_calls.items[1].fields["id"] = Str("c1")

\* ------------------------------------------------------------------------
\* C6
\* ------------------------------------------------------------------------
\* the tool_calls entries of the first choice's message, in order
FirstChoiceToolCalls(d) ==
    LET choices == ChoicesOf(d)
        msg == IF choices = <<>> THEN Null ELSE At(choices[1], "message")
    IN IF IsObj(msg) /\ IsList(At(msg, "tool_calls"))
       THEN msg.fields["tool_calls"].items ELSE <<>>

\* C6: for every response without output (choices absent, null or a sequence
\* of typed choices): a chat.completion yields one ToolCall per entry of
\* choices[0].message.tool_calls, in order, with type "function" when the
\* entry has none, id copied as-is and function.name/arguments "" when
\* absent; an empty choices, a legacy or an unrecognised shape yields [].
C6_ChatToolCalls ==
    (CallsDone /\ ~HasKey(data, "output") /\ TypedChoices(data))
        => LET tcs == IF At(data, "object") = Str("chat.completion")
                      THEN FirstChoiceToolCalls(data) ELSE <<>>
           IN tool_calls =
                 List([i \in 1..Len(tcs) |->
                    Obj([type |-> IF HasKey(tcs[i], "type") THEN tcs[i].fields["type"]
                                  ELSE Str("function"),
                         id |-> At(tcs[i], "id"),
                         function |-> Obj([name |-> FunctionField(tcs[i], "name"),
                                           arguments |-> FunctionField(tcs[i], "arguments")])])])

\* a chat.completion whose first choice has two tool calls, the second without
\* a type: two ToolCalls in that order, the second of type "function"
C6_Witness ==
    /\ CallsDone /\ ~HasKey(data, "output") /\ TypedChoices(data)
    /\ At(data, "object") = Str("chat.completion")
    /\ Len(FirstChoiceToolCalls(data)) = 2
    /\ At(FirstChoiceToolCalls(data)[1], "id") = Str("c3")
    /\ ~HasKey(FirstChoiceToolCalls(data)[2], "type")
    /\ Len(tool_calls.items) = 2
    /\ tool_calls.items[1].fields["id"] = Str("c3")
    /\ tool_calls.items[2].fields["type"] = Str("function")

\* ------------------------------------------------------------------------
\* C7
\* ------------------------------------------------------------------------
\* C7: neither _extract_text nor _extract_tool_calls ever raises: for every
\* decoded JSON object, malformed ones included, the results are a string
\* and a list.
C7_NeverRaises ==
    /\ TextDone => IsStr(response_text)
    /\ CallsDone => IsList(tool_calls)

\* ------------------------------------------------------------------------
\* C8
\* ------------------------------------------------------------------------
\* the last message of the list execute outputs
LastOut == messages_out.items[Len(messages_out.items)]

\* C8: the list execute outputs is a new list, the input messages (left as
\* decoded) followed by exactly one entry of role assistant, which has a
\* content [{type: "text", text}] if and only if the extracted text is
\* non-empty and a tool_calls, the extracted list, if and only if that list
\* is non-empty.
C8_AssistantTurnAppended ==
    pc = "done" =>
        /\ messages = json_loads(args.messages_json)
        /\ IsList(messages_out)
        /\ Len(messages_out.items) = Len(messages.items) + 1
        /\ SubSeq(messages_out.items, 1, Len(messages.items)) = messages.items
        /\ IsObj(LastOut)
        /\ DOMAIN LastOut.fields \subseteq {"role", "content", "tool_calls"}
        /\ At(LastOut, "role") = Str("assistant")
        /\ HasKey(LastOut, "content") <=> response_text # Str("")
        /\ HasKey(LastOut, "content") =>
              LastOut.fields["content"] =
                 List(<<Obj([type |-> Str("text"), text |-> response_text])>>)
        /\ HasKey(LastOut, "tool_calls") <=> tool_calls # EmptyList
        /\ HasKey(LastOut, "tool_calls") => LastOut.fields["tool_calls"] = tool_calls
        /\ outputs.messages_json_out = json_dumps(messages_out)

\* two input messages and a response with text and no tool call: a third
\* message with content and without tool_calls
C8_Witness ==
    /\ pc = "done"
    /\ Len(messages.items) = 2
    /\ response_text = Str("a") /\ tool_calls = EmptyList
    /\ Len(messages_out.items) = 3
    /\ HasKey(LastOut, "content") /\ ~HasKey(LastOut, "tool_calls")

\* ------------------------------------------------------------------------
\* C9
\* ------------------------------------------------------------------------
\* an assistant message of the list carries a tool call
HasAssistantToolCall(msgs) ==
    \E i \in 1..Len(msgs) :
        /\ At(msgs[i], "role") = Str("assistant")
        /\ IsList(At(msgs[i], "tool_calls"))
        /\ At(msgs[i], "tool_calls").items # <<>>

\* the builder ran with role tool on messages without an assistant tool call
ToolWithoutCall ==
    /\ pc \in {"done", "error"}
    /\ args.role = "tool"
    /\ IsList(CreateDecode(args.messages_json))
    /\ ~HasAssistantToolCall(CreateDecode(args.messages_json).items)

\* C9 as claimed: building a role tool message when no prior assistant
\* message carries a tool call fails with a ValidationError, and no message
\* list is output.
C9_FailsWithValidationError ==
    ToolWithoutCall => (pc = "error" /\ err = Raise("ValidationError") /\ outputs = Unset)

\* C9 as amended: it fails with a ValueError, and no message list is output.
C9_FailsWithValueError ==
    ToolWithoutCall => (pc = "error" /\ err = Raise("ValueError") /\ outputs = Unset)

\* role tool after a user message that has tool_calls and an assistant message
\* that has none: the builder failed
C9_Witness ==
    /\ ToolWithoutCall
    /\ Len(messages.items) = 2
    /\ Truthy(At(messages.items[1], "tool_calls"))
    /\ At(messages.items[2], "role") = Str("assistant")
    /\ pc = "error" /\ outputs = Unset

\* ------------------------------------------------------------------------
\* C10
\* ------------------------------------------------------------------------
\* the API-key check and the messages check pass for the arguments
ChecksPass(a) ==
    /\ a.api_key # "" \/ a.env_api_key # ""
    /\ a.messages_json.k = "text"
    /\ IsList(a.messages_json.doc)
    /\ a.messages_json.doc.items # <<>>

\* C10: in an invocation of execute the chat request is issued at most once,
\* and only after the API-key check and the messages check have passed; when
\* the request fails the invocation ends in an error, with no further request
\* and no outputs, and nothing happens after an error.
C10_SingleRequest ==
    /\ [](requests <= 1)
    /\ [](requests > 0 => ChecksPass(args))
    /\ [](pc = "error" => outputs = Unset /\ messages_out = Unset)
    /\ [][pc # "error" /\ requests' >= requests]_vars
    /\ [][(pc = "requesting" /\ err' # Unset /\ data' = Unset)
            => (pc' = "error" /\ requests' = requests)]_vars

\* the request was issued once and failed: an error and no outputs
C10_Witness ==
    /\ pc = "error"
    /\ requests = 1
    /\ err = Raise("APIError")
    /\ outputs = Unset

\* ------------------------------------------------------------------------
\* C11
\* ------------------------------------------------------------------------
\* the value the query of the arguments extracts from the document
Extracted == jmespath_search(args.path, json_loads(args.json_text))

\* JSONPathSelect.execute ran on a JSON document and a JMESPath expression
Selected ==
    /\ pc \in {"done", "error"}
    /\ args.json_text.k = "text"
    /\ args.path.k = "path"

\* C11: for a non-empty json_text and path, execute outputs the value the
\* query extracts: the string itself, the stringified form of a number or a
\* boolean, the JSON text of a list or an object, and the empty string only
\* when nothing is found.
C11_OutputsExtractedValue ==
    Selected =>
        /\ pc = "done"
        /\ outputs = CASE Extracted.k = "str" -> Extracted
                       [] Extracted.k \in {"num", "bool"} -> PyStr(Extracted)
                       [] Extracted.k \in {"list", "obj"} -> json_dumps(Extracted)
                       [] OTHER -> Str("")

\* ------------------------------------------------------------------------
\* C12
\* ------------------------------------------------------------------------
\* EnvVarNode.execute ran for a key with "Only when missing" and a default
OnlyWhenMissing ==
    /\ pc \in {"done", "error"}
    /\ args.env_key # ""
    /\ ~args.use_fallback_when_empty
    /\ args.default_value # ""

\* the key is defined in the process environment or in the .env file
KeyDefined == args.environ # Absent \/ args.dotenv \notin {NoFile, Absent}

\* every definition of the key is the empty value
DefinedEmpty ==
    /\ KeyDefined
    /\ args.environ \in {Absent, Str("")}
    /\ args.dotenv \in {NoFile, Absent, Str("")}

\* C12: with use_fallback_when_empty false and a non-empty default_value, the
\* default is substituted only when the key is defined neither in the process
\* environment nor in the .env file; a key defined in either place with an
\* empty value resolves to the empty string, not to the default.
C12_DefaultOnlyWhenMissing ==
    OnlyWhenMissing =>
        /\ (pc = "done" /\ outputs = Str(args.default_value)) => ~KeyDefined
        /\ DefinedEmpty => (pc = "done" /\ outputs = Str(""))

\* ------------------------------------------------------------------------
\* C13
\* ------------------------------------------------------------------------
\* the last entry of the tool_calls of a message, null when there is none
LastToolCall(m) ==
    IF IsList(At(m, "tool_calls")) /\ At(m, "tool_calls").items # <<>>
    THEN m.fields["tool_calls"].items[Len(m.fields["tool_calls"].items)]
    ELSE Null

\* the id a tool call offers: its non-empty id, else its call_id
OfferedId(tc) ==
    IF ~IsObj(tc) THEN Null
    ELSE IF At(tc, "id") \notin {Null, Str("")} THEN tc.fields["id"]
    ELSE At(tc, "call_id")

\* an assistant message whose last tool call offers a non-empty id
UsableSource(m) ==
    /\ At(m, "role") = Str("assistant")
    /\ OfferedId(LastToolCall(m)) \notin {Null, Str("")}

\* the input messages of the builder
CreateInput == CreateDecode(args.messages_json).items

\* C13: whenever the builder succeeds with role tool, the output is the input
\* list followed by one new message whose tool_call_id is the id (or, when it
\* is empty or absent, the call_id) of the last tool call of the most recent
\* assistant message that has such a last tool call; other roles, later
\* assistant messages without one and non-last tool calls are never the source.
C13_ToolCallIdSource ==
    (pc = "done" /\ args.role = "tool") =>
        /\ outputs = json_dumps(messages)
        /\ Len(messages.items) = Len(CreateInput) + 1
        /\ SubSeq(messages.items, 1, Len(CreateInput)) = CreateInput
        /\ \E i \in 1..Len(CreateInput) :
              /\ UsableSource(CreateInput[i])
              /\ \A j \in (i + 1)..Len(CreateInput) : ~UsableSource(CreateInput[j])
              /\ At(messages.items[Len(messages.items)], "tool_call_id")
                    = OfferedId(LastToolCall(CreateInput[i]))
              /\ At(messages.items[Len(messages.items)], "role") = Str("tool")

\* an assistant message whose last tool call has only a call_id, then an
\* assistant message whose last tool call has an empty id: the call_id of the
\* first is the tool_call_id
C13_Witness ==
    /\ pc = "done" /\ args.role = "tool"
    /\ Len(CreateInput) = 2
    /\ IsList(At(CreateInput[1], "tool_calls"))
    /\ Len(At(CreateInput[1], "tool_calls").items) = 2
    /\ LastToolCall(CreateInput[1]) = Obj([call_id |-> Str("k2")])
    /\ At(CreateInput[2], "role") = Str("assistant")
    /\ LastToolCall(CreateInput[2]) = Obj([id |-> Str("")])
    /\ At(messages.items[3], "tool_call_id") = Str("k2")

=============================================================================
